---- MODULE Spec2Model ----
(***************************************************************************)
(* The trading engine of PolyMarketBOT (src-tauri/src/trading/engine.rs)   *)
(* behind the Tauri commands of src-tauri/src/main.rs.                     *)
(*                                                                         *)
(* Representation                                                          *)
(*  - money (f64 dollars) is an integer number of milli-dollars;           *)
(*    divisions round down (\div);                                         *)
(*  - edge, fair_price and recommended_size (f64 fractions) are integer    *)
(*    hundredths;                                                          *)
(*  - token counts are kilo-tokens, so estimate_cost ($3 / $15 per million *)
(*    tokens) is 3 resp. 15 milli-dollars per unit;                        *)
(*  - Option<T> is a sequence of length at most one: << >> is None and     *)
(*    <<x>> is Some(x);                                                    *)
(*  - Utc::now() is the variable now, in seconds;                          *)
(*  - Uuid::new_v4() is the ordinal of the order among all orders created; *)
(*  - an activity message is <<text, number>>: the format string and the   *)
(*    number it interpolates.                                              *)
(*  - stats.sharpe_ratio is kept as its sign (-1, 0, 1) in real            *)
(*    arithmetic: 0 when the returns have no spread or no mean.            *)
(* Five fields are history ("ghost") fields that the program does not      *)
(* hold: log_count, the number of add_activity calls so far, which also    *)
(* numbers each entry (seq); order_count, the number of orders created so  *)
(* far; resolved_pnl, the sum of the pnl of the orders resolved so far;    *)
(* demo_cycles, the number of demo cycles run so far; and                  *)
(* completed_cycles, the number of run_cycle calls that reached the end.   *)
(***************************************************************************)
EXTENDS Integers, Sequences, FiniteSets, TLC

\* ------------------------------------------------------------------ bounds
\* Total number of command invocations and clock advances in one behaviour.
MaxOps == 2
\* Total number of markets the fetches of one behaviour return.
MaxFetched == 2
\* Seconds the clock advances by at a time.
TickSecs == 3661
\* Longest predictor response text, in tokens.
MaxLen == 3
\* Warm-up prefix: WarmCycles cycles of WarmMarkets orders each, one cycle of a
\* single order, then WarmRestarts stop/start pairs.
WarmCycles == 16
WarmMarkets == 3
WarmRestarts == 157
\* Long-run prefix: LongCycles cycles whose fetch returns no market; then one
\* cycle whose fetch returns BurstMarkets markets.
LongCycles == 499
BurstMarkets == 11

\* ------------------------------------------------------- program constants
LogCap == 500
LedgerCap == 50
MarketPrefix == 10

\* The tasks of the async runtime that run commands concurrently.
Tasks == {1, 2}

Min(a, b) == IF a <= b THEN a ELSE b

None == << >>
Some(x) == <<x>>
IsSome(o) == Len(o) = 1
Unwrap(o) == o[1]

\* ------------------------------------------------------------------ models
DefaultConfig ==
  [ initial_balance |-> 50000, max_bet_size |-> 200000,
    min_edge_threshold |-> 30, auto_trading |-> FALSE ]

\* Configurations an operator may save.
ConfigSet ==
  { DefaultConfig,
    [DefaultConfig EXCEPT !.auto_trading = TRUE, !.initial_balance = 80000,
                          !.max_bet_size = 5000] }

ClaudeClient_new == [ total_input_tokens |-> 0, total_output_tokens |-> 0 ]

PolymarketClient_new == [ timeout_secs |-> 30 ]

estimate_cost(c) == c.total_input_tokens * 3 + c.total_output_tokens * 15

\* TradingEngine::new
New(t) ==
  [ polymarket |-> None,
    claude |-> None,
    config |-> DefaultConfig,
    stats |-> [ current_balance |-> DefaultConfig.initial_balance,
                initial_balance |-> DefaultConfig.initial_balance,
                total_pnl |-> 0, api_costs |-> 0, win_rate |-> 0,
                wins |-> 0, losses |-> 0, total_trades |-> 0,
                markets_scanned |-> 0, avg_bet |-> 0,
                best_trade |-> 0, worst_trade |-> 0,
                daily_api_cost |-> 0, runway_days |-> 0,
                sharpe_ratio |-> 0,
                uptime |-> <<0, 0, 0>>, cycle |-> 0 ],
    orders |-> << >>,
    activity_log |-> << >>,
    balance_history |-> << [ timestamp |-> t,
                             balance |-> DefaultConfig.initial_balance,
                             label |-> <<0, "h">> ] >>,
    is_running |-> FALSE,
    start_time |-> None,
    log_count |-> 0,
    order_count |-> 0,
    resolved_pnl |-> 0,
    demo_cycles |-> 0,
    completed_cycles |-> 0 ]

\* Vec::split_off(len - keep), assigned back: the last keep elements.
LastN(s, keep) == SubSeq(s, Len(s) - keep + 1, Len(s))

\* A bug add_activity could have: evict from the wrong end.
add_activity_keep_first(e, t, message, entry_type) ==
  LET entry == [ timestamp |-> t, message |-> message,
                 entry_type |-> entry_type, seq |-> e.log_count + 1 ]
      pushed == Append(e.activity_log, entry)
  IN [e EXCEPT !.activity_log =
                  IF Len(pushed) > LogCap THEN SubSeq(pushed, 1, LogCap) ELSE pushed,
               !.log_count = @ + 1]

\* TradingEngine::add_activity
add_activity(e, t, message, entry_type) ==
  LET entry == [ timestamp |-> t, message |-> message,
                 entry_type |-> entry_type, seq |-> e.log_count + 1 ]
      pushed == Append(e.activity_log, entry)
  IN [e EXCEPT !.activity_log =
                  IF Len(pushed) > LogCap THEN LastN(pushed, LogCap) ELSE pushed,
               !.log_count = @ + 1]

\* A bug configure could have: restarting the accounts from the new balance.
configure_resetting_balance(e, t, config) ==
  add_activity([e EXCEPT !.polymarket = Some(PolymarketClient_new),
                         !.claude = Some(ClaudeClient_new),
                         !.config = config,
                         !.stats.initial_balance = config.initial_balance],
               t, <<"Configuration updated successfully", 0>>, "Info")

\* TradingEngine::configure
configure(e, t, config) ==
  add_activity([e EXCEPT !.polymarket = Some(PolymarketClient_new),
                         !.claude = Some(ClaudeClient_new),
                         !.config = config],
               t, <<"Configuration updated successfully", 0>>, "Info")

\* TradingEngine::start
start(e, t) ==
  add_activity([e EXCEPT !.is_running = TRUE, !.start_time = Some(t)],
               t, <<"Bot started - Survival Mode active", 0>>, "Info")

\* A bug stop could have: forgetting when the engine was started.
stop_clearing_start_time(e, t) ==
  add_activity([e EXCEPT !.is_running = FALSE, !.start_time = None],
               t, <<"Bot stopped", 0>>, "Warning")

\* TradingEngine::stop
stop(e, t) ==
  add_activity([e EXCEPT !.is_running = FALSE],
               t, <<"Bot stopped", 0>>, "Warning")

\* format!("{:02}:{:02}:{:02}", num_hours, num_minutes % 60, num_seconds % 60)
format_uptime(elapsed) ==
  << elapsed \div 3600, (elapsed \div 60) % 60, elapsed % 60 >>

\* ---------------------------------------------------------------- run_cycle
\* A cycle in progress: the engine and the local new_activities.
\* self.add_activity(..); new_activities.push(self.activity_log.last().unwrap().clone())
log_and_push(ctx, t, message, entry_type) ==
  LET e2 == add_activity(ctx.e, t, message, entry_type)
  IN [ e |-> e2,
       new_activities |-> Append(ctx.new_activities,
                                 e2.activity_log[Len(e2.activity_log)]) ]

\* run_cycle from after the is_running test up to the get_markets call:
\* the cycle counter, the uptime, and the scan line when a client is set.
cycle_begin(e, t) ==
  LET e1 == [e EXCEPT !.stats.cycle = @ + 1]
      e2 == IF IsSome(e1.start_time)
              THEN [e1 EXCEPT !.stats.uptime = format_uptime(t - Unwrap(e1.start_time))]
              ELSE e1
      ctx == [ e |-> e2, new_activities |-> << >> ]
  IN IF IsSome(e2.polymarket)
       THEN log_and_push(ctx, t, <<"Scanning markets... Cycle #", e2.stats.cycle>>, "Info")
       ELSE ctx

\* A bug the Err arm could have: logging the error without returning, so that
\* the rest of the cycle runs on an empty market list.
fetch_failed_without_return(ctx, t) ==
  LET c1 == log_and_push(ctx, t, <<"Error fetching markets: ", 0>>, "Error")
  IN [c1 EXCEPT !.e.balance_history =
         Append(@, [ timestamp |-> t, balance |-> c1.e.stats.current_balance,
                     label |-> <<Len(c1.e.balance_history), "h">> ])]

\* The Err arm of get_markets.
fetch_failed(ctx, t) ==
  log_and_push(ctx, t, <<"Error fetching markets: ", 0>>, "Error")

\* A bug the Ok arm could have: storing the size of the last fetch.
fetch_ok_overwriting(ctx, t, n) ==
  log_and_push([ctx EXCEPT !.e.stats.markets_scanned = n],
               t, <<"Processing markets...", n>>, "Info")

\* The Ok arm of get_markets; n is markets.len().
fetch_ok(ctx, t, n) ==
  log_and_push([ctx EXCEPT !.e.stats.markets_scanned = @ + n],
               t, <<"Processing markets...", n>>, "Info")

\* ClaudeClient::analyze_market on an HTTP exchange that succeeded: the usage
\* is added to the client's totals. (The responses of the environment carry
\* texts on which parse_prediction returns.)
track_usage(c, usage) ==
  IF IsSome(usage)
    THEN [c EXCEPT !.total_input_tokens = @ + Unwrap(usage)[1],
                   !.total_output_tokens = @ + Unwrap(usage)[2]]
    ELSE c

\* A bug simulate_order could have: stamping the resolution time at creation.
simulate_order_stamped(e, t, market, prediction, size) ==
  [ id |-> e.order_count + 1, market_id |-> market, side |-> "Buy",
    outcome |-> prediction.predicted_outcome, price |-> prediction.fair_price,
    size |-> size, status |-> "Filled", created_at |-> t,
    resolved_at |-> Some(t), pnl |-> None ]

\* TradingEngine::simulate_order
simulate_order(e, t, market, prediction, size) ==
  [ id |-> e.order_count + 1,
    market_id |-> market,
    side |-> "Buy",
    outcome |-> prediction.predicted_outcome,
    price |-> prediction.fair_price,
    size |-> size,
    status |-> "Filled",
    created_at |-> t,
    resolved_at |-> None,
    pnl |-> None ]

\* A bug the loop body could have: placing the order whether or not
\* auto_trading is set.
prediction_ok_ignoring_auto_trading(ctx, t, market, prediction) ==
  LET ctx1 == [ctx EXCEPT !.e.stats.api_costs = estimate_cost(Unwrap(ctx.e.claude))]
      candidate == (prediction.recommended_size * ctx.e.stats.current_balance) \div 100
      order_size == Min(candidate, ctx.e.config.max_bet_size)
  IN IF prediction.edge >= ctx.e.config.min_edge_threshold
       THEN IF order_size > 1000
              THEN [log_and_push(log_and_push(ctx1, t, <<"Edge: ", candidate>>, "Edge"),
                                 t, <<"ORDER ", order_size>>, "Order")
                      EXCEPT !.e.orders = Append(@, simulate_order(ctx.e, t, market, prediction, order_size)),
                             !.e.order_count = @ + 1]
              ELSE log_and_push(ctx1, t, <<"Edge: ", candidate>>, "Edge")
       ELSE ctx1

\* A bug the loop body could have: the stake not capped by max_bet_size.
prediction_ok_without_cap(ctx, t, market, prediction) ==
  LET ctx1 == [ctx EXCEPT !.e.stats.api_costs = estimate_cost(Unwrap(ctx.e.claude))]
      candidate == (prediction.recommended_size * ctx.e.stats.current_balance) \div 100
  IN IF prediction.edge >= ctx.e.config.min_edge_threshold
       THEN IF candidate > 1000 /\ ctx.e.config.auto_trading
              THEN [log_and_push(log_and_push(ctx1, t, <<"Edge: ", candidate>>, "Edge"),
                                 t, <<"ORDER ", candidate>>, "Order")
                      EXCEPT !.e.orders = Append(@, simulate_order(ctx.e, t, market, prediction, candidate)),
                             !.e.order_count = @ + 1]
              ELSE log_and_push(ctx1, t, <<"Edge: ", candidate>>, "Edge")
       ELSE ctx1

\* The Ok(prediction) arm of the loop body, after the client tracked the usage.
prediction_ok(ctx, t, market, prediction) ==
  LET c == Unwrap(ctx.e.claude)
      ctx1 == [ctx EXCEPT !.e.stats.api_costs = estimate_cost(c)]
      candidate == (prediction.recommended_size * ctx1.e.stats.current_balance) \div 100
  IN IF prediction.edge >= ctx1.e.config.min_edge_threshold
       THEN LET ctx2 == log_and_push(ctx1, t, <<"Edge: ", candidate>>, "Edge")
                order_size == Min(candidate, ctx2.e.config.max_bet_size)
            IN IF order_size > 1000 /\ ctx2.e.config.auto_trading
                 THEN LET order == simulate_order(ctx2.e, t, market, prediction, order_size)
                          ctx3 == log_and_push(ctx2, t, <<"ORDER ", order_size>>, "Order")
                      IN [ctx3 EXCEPT !.e.orders = Append(@, order),
                                      !.e.order_count = @ + 1]
                 ELSE ctx2
       ELSE ctx1

\* The Err arm of the loop body.
prediction_failed(ctx, t) ==
  log_and_push(ctx, t, <<"Inference: -$", 2>>, "Inference")

\* rng_seed = (rng_seed * 1.1 + 0.3) % 1.0 on the fraction num/den.
rng_next(rng) ==
  [ num |-> (11 * rng.num + 3 * rng.den) % (10 * rng.den), den |-> 10 * rng.den ]

\* rng_seed > 0.35
rng_won(rng) == 20 * rng.num > 7 * rng.den

\* The payout of one order.
order_pnl(order, won) ==
  IF won THEN (order.size * (100 - order.price) * 3) \div (order.price * 10)
         ELSE 0 - ((order.size * 7) \div 10)

\* A bug the loop body could have: a break-even trade counted as neither a win
\* nor a loss.
resolve_one_skipping_break_even(e, t, i, rng) ==
  LET order == e.orders[i]
      pnl == order_pnl(order, rng_won(rng))
      e1 == [e EXCEPT !.orders[i].pnl = Some(pnl),
                      !.orders[i].status = "Resolved",
                      !.orders[i].resolved_at = Some(t),
                      !.stats.current_balance = @ + pnl,
                      !.stats.total_trades = @ + 1,
                      !.resolved_pnl = @ + pnl]
      e2 == IF pnl > 0 THEN [e1 EXCEPT !.stats.wins = @ + 1]
            ELSE IF pnl < 0 THEN [e1 EXCEPT !.stats.losses = @ + 1]
            ELSE e1
  IN add_activity(e2, t, <<"RESOLVED ", pnl>>,
                  IF pnl >= 0 THEN "Resolved" ELSE "Warning")

\* A bug the loop body could have: the pnl recorded on the order but not
\* added to the balance.
resolve_one_forgetting_balance(e, t, i, rng) ==
  add_activity([e EXCEPT !.orders[i].pnl = Some(order_pnl(e.orders[i], rng_won(rng))),
                         !.orders[i].status = "Resolved",
                         !.orders[i].resolved_at = Some(t),
                         !.stats.total_trades = @ + 1,
                         !.stats.losses = @ + 1,
                         !.resolved_pnl = @ + order_pnl(e.orders[i], rng_won(rng))],
               t, <<"RESOLVED ", order_pnl(e.orders[i], rng_won(rng))>>, "Resolved")

\* The body of the loop of resolve_pending_orders for one Filled order at
\* index i; rng is the seed already advanced for it.
resolve_one(e, t, i, rng) ==
  LET order == e.orders[i]
      pnl == order_pnl(order, rng_won(rng))
      e1 == [e EXCEPT !.orders[i].pnl = Some(pnl),
                      !.orders[i].status = "Resolved",
                      !.orders[i].resolved_at = Some(t),
                      !.stats.current_balance = @ + pnl,
                      !.stats.total_trades = @ + 1,
                      !.resolved_pnl = @ + pnl]
      e2 == IF pnl > 0
              THEN [e1 EXCEPT !.stats.wins = @ + 1,
                              !.stats.best_trade = IF pnl > @ THEN pnl ELSE @]
              ELSE [e1 EXCEPT !.stats.losses = @ + 1,
                              !.stats.worst_trade = IF pnl < @ THEN pnl ELSE @]
  IN add_activity(e2, t, <<"RESOLVED ", pnl>>,
                  IF pnl >= 0 THEN "Resolved" ELSE "Warning")

\* A bug the resolution loop could have: stopping at the first Filled order.
RECURSIVE resolve_from_stopping_after_one(_, _, _, _)
resolve_from_stopping_after_one(e, t, i, rng) ==
  IF i > Len(e.orders) THEN e
  ELSE IF e.orders[i].status = "Filled"
         THEN resolve_one(e, t, i, rng_next(rng))
         ELSE resolve_from_stopping_after_one(e, t, i + 1, rng)

\* for order in self.orders.iter_mut(), from index i on.
RECURSIVE resolve_from(_, _, _, _)
resolve_from(e, t, i, rng) ==
  IF i > Len(e.orders) THEN e
  ELSE IF e.orders[i].status = "Filled"
         THEN resolve_from(resolve_one(e, t, i, rng_next(rng)), t, i + 1, rng_next(rng))
         ELSE resolve_from(e, t, i + 1, rng)

\* A bug the truncation could have: keeping the oldest orders.
truncate_ledger_keep_oldest(orders) ==
  IF Len(orders) > LedgerCap THEN SubSeq(orders, 1, LedgerCap) ELSE orders

\* The truncation that ends resolve_pending_orders.
truncate_ledger(orders) ==
  IF Len(orders) > LedgerCap THEN LastN(orders, LedgerCap) ELSE orders

\* A bug resolve_pending_orders could have: a loop that skips the first order.
resolve_pending_orders_from_second(e, t) ==
  [resolve_from(e, t, 2, [ num |-> e.stats.cycle, den |-> 1 ])
     EXCEPT !.orders = truncate_ledger(@)]

\* TradingEngine::resolve_pending_orders
resolve_pending_orders(e, t) ==
  LET e1 == resolve_from(e, t, 1, [ num |-> e.stats.cycle, den |-> 1 ])
  IN [e1 EXCEPT !.orders = truncate_ledger(@)]

RECURSIVE SumSizes(_, _)
SumSizes(orders, i) ==
  IF i > Len(orders) THEN 0
  ELSE (IF orders[i].status = "Resolved" THEN orders[i].size ELSE 0)
       + SumSizes(orders, i + 1)

\* f64 as u32: the cast saturates, a negative quotient is 0.
as_u32(x) == IF x < 0 THEN 0 ELSE x

\* The returns of the Sharpe approximation: the pnl of the orders that have one.
RECURSIVE SumPnl(_, _)
SumPnl(orders, i) ==
  IF i > Len(orders) THEN 0
  ELSE (IF IsSome(orders[i].pnl) THEN Unwrap(orders[i].pnl) ELSE 0)
       + SumPnl(orders, i + 1)

Returns(orders) == SelectSeq(orders, LAMBDA o : IsSome(o.pnl))

\* mean / std_dev * sqrt(252) if std_dev > 0.0 else 0.0, as a sign. With no
\* returns the mean is NaN, std_dev > 0.0 is false and the result is 0.0.
sharpe_sign(returns) ==
  IF \A i, j \in 1..Len(returns) : returns[i].pnl = returns[j].pnl THEN 0
  ELSE IF SumPnl(returns, 1) > 0 THEN 1
  ELSE IF SumPnl(returns, 1) < 0 THEN 0 - 1
  ELSE 0

\* A bug update_stats could have: the win rate left as a fraction.
win_rate_as_fraction(s, orders) ==
  IF s.total_trades > 0
    THEN [s EXCEPT !.win_rate = (s.wins * 100) \div s.total_trades,
                   !.avg_bet = SumSizes(orders, 1) \div s.total_trades]
    ELSE s

\* update_stats: win rate (in hundredths of a percent) and average bet.
trade_stats(s, orders) ==
  IF s.total_trades > 0
    THEN [s EXCEPT !.win_rate = (s.wins * 10000) \div s.total_trades,
                   !.avg_bet = SumSizes(orders, 1) \div s.total_trades]
    ELSE s

\* update_stats: the Sharpe approximation.
sharpe_stats(s, orders) ==
  IF s.total_trades > 1
    THEN [s EXCEPT !.sharpe_ratio = sharpe_sign(Returns(orders))]
    ELSE s

\* update_stats: the runway, from the daily cost of the previous update, and
\* then the daily cost.
runway_stats(s) ==
  IF s.daily_api_cost > 0
    THEN [s EXCEPT !.runway_days = as_u32(s.current_balance \div s.daily_api_cost),
                   !.daily_api_cost = s.api_costs]
    ELSE [s EXCEPT !.runway_days = 9999, !.daily_api_cost = s.api_costs]

\* A bug update_stats could have: the total measured from the configured
\* initial balance instead of the one the statistics started from.
total_pnl_stats_from_config(e) ==
  [e.stats EXCEPT !.total_pnl = e.stats.current_balance - e.config.initial_balance]

\* update_stats: the total pnl.
total_pnl_stats(e) ==
  [e.stats EXCEPT !.total_pnl = e.stats.current_balance - e.stats.initial_balance]

\* TradingEngine::update_stats
update_stats(e) ==
  [e EXCEPT !.stats =
     runway_stats(sharpe_stats(trade_stats(total_pnl_stats(e), e.orders), e.orders))]

\* A bug run_cycle could have: recording the balance point before resolving.
cycle_finish_point_before_resolution(ctx, t) ==
  LET e1 == [ctx.e EXCEPT !.balance_history =
                Append(@, [ timestamp |-> t,
                            balance |-> ctx.e.stats.current_balance,
                            label |-> <<Len(ctx.e.balance_history), "h">> ]),
                          !.completed_cycles = @ + 1]
  IN [ctx EXCEPT !.e = update_stats(resolve_pending_orders(e1, t))]

\* run_cycle after the loop: resolution, the balance point, the statistics.
cycle_finish(ctx, t) ==
  LET e1 == resolve_pending_orders(ctx.e, t)
      e2 == [e1 EXCEPT !.balance_history =
                Append(@, [ timestamp |-> t,
                            balance |-> e1.stats.current_balance,
                            label |-> <<Len(e1.balance_history), "h">> ]),
                       !.completed_cycles = @ + 1]
  IN [ctx EXCEPT !.e = update_stats(e2)]

\* One pass of the loop body of run_cycle for one market, given what the
\* predictor's HTTP exchange produced.
predict_step(ctx, t, market, resp) ==
  IF resp.ok
    THEN prediction_ok([ctx EXCEPT !.e.claude = Some(track_usage(Unwrap(@), resp.usage))],
                       t, market, resp.prediction)
    ELSE prediction_failed(ctx, t)

\* ----------------------------------------------------------- run_demo_cycle
\* main.rs run_demo_cycle, with c the incremented cycle counter.
demo_edge(c) == 25 + ((17 * c) % 40)
demo_order_size(c) == (20 + ((23 * c) % 180)) * 1000
demo_won(c) == (73 * c) % 100 > 35
demo_pnl(c) ==
  IF demo_won(c) THEN (demo_order_size(c) * demo_edge(c) * 8) \div 1000
                 ELSE 0 - ((demo_order_size(c) * (100 - demo_edge(c)) * 6) \div 1000)

\* The traded branch: the edge and order lines, then the resolution.
demo_resolve(e, t, pnl) ==
  add_activity(
    IF pnl > 0
      THEN [e EXCEPT !.stats.current_balance = @ + pnl,
                     !.stats.total_trades = @ + 1,
                     !.stats.wins = @ + 1,
                     !.stats.best_trade = IF pnl > @ THEN pnl ELSE @]
      ELSE [e EXCEPT !.stats.current_balance = @ + pnl,
                     !.stats.total_trades = @ + 1,
                     !.stats.losses = @ + 1,
                     !.stats.worst_trade = IF pnl < @ THEN pnl ELSE @],
    t, <<"RESOLVED ", pnl>>, IF pnl >= 0 THEN "Resolved" ELSE "Warning")

demo_trade(e, t) ==
  demo_resolve(
    add_activity(add_activity(e, t, <<"Edge: ", demo_edge(e.stats.cycle)>>, "Edge"),
                 t, <<"ORDER ", demo_order_size(e.stats.cycle)>>, "Order"),
    t, demo_pnl(e.stats.cycle))

\* if !eng.is_running { .. }; eng.stats.cycle += 1
demo_begin(e, t) ==
  IF ~e.is_running
    THEN [e EXCEPT !.is_running = TRUE, !.start_time = Some(t), !.stats.cycle = @ + 1,
                   !.demo_cycles = @ + 1]
    ELSE [e EXCEPT !.stats.cycle = @ + 1, !.demo_cycles = @ + 1]

demo_uptime(e, t) ==
  IF IsSome(e.start_time)
    THEN [e EXCEPT !.stats.uptime = format_uptime(t - Unwrap(e.start_time))]
    ELSE e

demo_scan_count(c) == 200 + ((c * 7) % 900)

demo_scan(e, t) ==
  add_activity([e EXCEPT !.stats.markets_scanned = @ + demo_scan_count(e.stats.cycle)],
               t, <<"Scanning feeds...", demo_scan_count(e.stats.cycle)>>, "Info")

demo_market(e, t) ==
  IF e.stats.cycle % 3 # 0
    THEN demo_trade(e, t)
    ELSE add_activity(e, t, <<"markets scanned, no edge", demo_scan_count(e.stats.cycle)>>, "Info")

demo_monitor(e, t) ==
  add_activity(add_activity(e, t, <<"Evaluating markets...", 400 + (e.stats.cycle % 600)>>, "Info"),
               t, <<"Monitoring orderbooks...", 200 + (e.stats.cycle % 700)>>, "Info")

demo_api_cost(e, t) ==
  IF e.stats.cycle % 5 = 0
    THEN add_activity([e EXCEPT !.stats.api_costs = @ + 3,
                                !.stats.daily_api_cost = e.stats.api_costs + 3],
                      t, <<"Inference: -$", 2 + (e.stats.cycle % 5)>>, "Inference")
    ELSE [e EXCEPT !.stats.api_costs = @ + 3,
                   !.stats.daily_api_cost = e.stats.api_costs + 3]

demo_balance_point(e, t) ==
  [e EXCEPT !.balance_history =
     Append(@, [ timestamp |-> t, balance |-> e.stats.current_balance,
                 label |-> <<Len(e.balance_history) * 2, "m">> ])]

demo_trade_stats(s) ==
  IF s.total_trades > 0
    THEN [s EXCEPT !.total_pnl = s.current_balance - s.initial_balance,
                   !.win_rate = (s.wins * 10000) \div s.total_trades,
                   !.avg_bet = ((s.current_balance \div s.total_trades) * 3) \div 10]
    ELSE [s EXCEPT !.total_pnl = s.current_balance - s.initial_balance]

demo_runway(s) ==
  IF s.daily_api_cost > 0
    THEN [s EXCEPT !.runway_days =
            as_u32(s.current_balance
                   \div (IF s.daily_api_cost > 10 THEN s.daily_api_cost ELSE 10))]
    ELSE s

\* eng.stats.sharpe_ratio = 1.5 + ((cycle_seed * 0.1) % 1.5): positive.
demo_stats(e) ==
  [e EXCEPT !.stats = [demo_runway(demo_trade_stats(@)) EXCEPT !.sharpe_ratio = 1]]

run_demo_cycle(e, t) ==
  demo_stats(demo_balance_point(demo_api_cost(demo_monitor(demo_market(
    demo_scan(demo_uptime(demo_begin(e, t), t), t), t), t), t), t))

\* ------------------------------------------------------------ environment
\* What one predictor exchange can produce: a transport failure, or a
\* response with its usage and the prediction parsed from its text.
Fallback ==
  [ predicted_outcome |-> "Yes", confidence |-> 30, edge |-> 0,
    recommended_size |-> 0, fair_price |-> 50 ]
Good ==
  [ predicted_outcome |-> "Yes", confidence |-> 80, edge |-> 40,
    recommended_size |-> 20, fair_price |-> 50 ]
Even ==
  [ predicted_outcome |-> "No", confidence |-> 90, edge |-> 30,
    recommended_size |-> 20, fair_price |-> 100 ]

\* An edge exactly at the default threshold with a stake of 2% of the balance.
Small ==
  [ predicted_outcome |-> "No", confidence |-> 60, edge |-> 30,
    recommended_size |-> 2, fair_price |-> 40 ]
TransportFailure == [ ok |-> FALSE, usage |-> None, prediction |-> Fallback ]
Response(usage, prediction) == [ ok |-> TRUE, usage |-> usage, prediction |-> prediction ]

ResponseSet ==
  { TransportFailure,
    Response(None, Fallback),
    Response(Some(<<1, 1>>), Good),
    Response(Some(<<1, 1>>), Even),
    Response(None, Small) }

\* ---------------------------------------------------------- parse_prediction
\* A response text is a sequence of tokens: the characters "{" and "}", a
\* letter "x", and "m", a well-formed list of JSON members giving the
\* prediction Good.
Tokens == { "{", "}", "x", "m" }

RECURSIVE TextsOfLen(_)
TextsOfLen(n) ==
  IF n = 0 THEN { << >> }
  ELSE { Append(s, c) : s \in TextsOfLen(n - 1), c \in Tokens }

Texts == UNION { TextsOfLen(n) : n \in 0..MaxLen }

\* str::find and str::rfind as Option<usize>: None, or Some(position).
find(text, ch) ==
  IF \E i \in 1..Len(text) : text[i] = ch
    THEN Some(CHOOSE i \in 1..Len(text) :
                text[i] = ch /\ \A j \in 1..(i - 1) : text[j] # ch)
    ELSE None

rfind(text, ch) ==
  IF \E i \in 1..Len(text) : text[i] = ch
    THEN Some(CHOOSE i \in 1..Len(text) :
                text[i] = ch /\ \A j \in (i + 1)..Len(text) : text[j] # ch)
    ELSE None

\* &text[start..=end] panics when start > end + 1.
slice_panics(first, last) == first > last + 1

\* let json_str = ..: the text from the first "{" to the last "}", or the
\* whole text when either is missing; None when the slice panics.
json_str(text) ==
  IF IsSome(find(text, "{")) /\ IsSome(rfind(text, "}"))
    THEN IF slice_panics(Unwrap(find(text, "{")), Unwrap(rfind(text, "}")))
           THEN None
           ELSE Some(SubSeq(text, Unwrap(find(text, "{")), Unwrap(rfind(text, "}"))))
    ELSE Some(text)

\* serde_json::from_str(json_str).unwrap_or_else(|_| json!({fallback})) and
\* the field reads with their defaults: an empty object takes every default,
\* which are the values of the fallback.
from_str_or_fallback(s) ==
  IF s = << "{", "m", "}" >> THEN Good ELSE Fallback

\* ClaudeClient::parse_prediction: Ok(prediction), or a panic.
parse_prediction(text) ==
  IF IsSome(json_str(text))
    THEN [ returned |-> TRUE, ok |-> TRUE,
           prediction |-> from_str_or_fallback(Unwrap(json_str(text))) ]
    ELSE [ returned |-> FALSE, ok |-> FALSE, prediction |-> Fallback ]

\* markets.len() of a successful fetch, given how many were fetched before.
MarketCounts(fetched_before) == 0..(MaxFetched - fetched_before)

\* ------------------------------------------------------------- warm-up
\* An engine that has been in use: configured for auto trading, started, run
\* for WarmCycles cycles of WarmMarkets traded markets each, then stopped and
\* started WarmRestarts times. Built from the operations above.
RECURSIVE warm_predict(_, _, _, _)
warm_predict(ctx, t, i, n) ==
  IF i > n THEN ctx
  ELSE warm_predict(predict_step(ctx, t, i, Response(Some(<<1, 1>>), Good)), t, i + 1, n)

warm_cycle(e, t, n) ==
  cycle_finish(warm_predict(fetch_ok(cycle_begin(e, t), t, n), t, 1, n), t).e

\* k cycles; the first half is evaluated (its counter read) before the second.
RECURSIVE warm_cycles(_, _, _)
warm_cycles(e, t, k) ==
  IF k = 0 THEN e
  ELSE IF k = 1 THEN warm_cycle(e, t, WarmMarkets)
  ELSE LET half == warm_cycles(e, t, k \div 2)
       IN IF half.log_count >= 0 THEN warm_cycles(half, t, k - (k \div 2)) ELSE half

RECURSIVE warm_restarts(_, _, _)
warm_restarts(e, t, k) ==
  IF k = 0 THEN e
  ELSE IF k = 1 THEN start(stop(e, t), t)
  ELSE LET half == warm_restarts(e, t, k \div 2)
       IN IF half.log_count >= 0 THEN warm_restarts(half, t, k - (k \div 2)) ELSE half

Warm ==
  LET cfg == [DefaultConfig EXCEPT !.auto_trading = TRUE]
      e1 == start(configure(New(0), 0, cfg), 0)
  IN warm_restarts(warm_cycle(warm_cycles(e1, 0, WarmCycles), 0, 1), 0, WarmRestarts)

\* k cycles in which the exchange returns an empty market list.
RECURSIVE empty_cycles(_, _, _)
empty_cycles(e, t, k) ==
  IF k = 0 THEN e
  ELSE IF k = 1 THEN warm_cycle(e, t, 0)
  ELSE LET half == empty_cycles(e, t, k \div 2)
       IN IF half.log_count >= 0 THEN empty_cycles(half, t, k - (k \div 2)) ELSE half

\* A started engine without auto-trading after LongCycles quiet cycles.
Long == empty_cycles(start(configure(New(0), 0, DefaultConfig), 0), 0, LongCycles)

\* ------------------------------------------------------------------- state
VARIABLES
  engine,   \* the TradingEngine behind Arc<Mutex<..>>
  mutex,    \* the tokio Mutex: None, or Some(task holding the guard)
  pc,       \* per task: "idle", "lock" (awaiting engine.lock()), and inside
            \* run_cycle "fetch" (awaiting get_markets) or "predict"
            \* (awaiting analyze_market)
  cmd,      \* per task: the command invoked
  cfg,      \* per task: the config argument of save_config
  fut,      \* per task: the locals of run_cycle across its awaits
  ret,      \* per task: what the last command returned
  now,      \* the clock
  ops,      \* how many commands have been invoked, how often the clock advanced
  fetched,  \* how many markets the fetches have returned
  parse     \* a response text and what parse_prediction made of it

vars == << engine, mutex, pc, cmd, cfg, fut, ret, now, ops, fetched, parse >>

NoParse == [ text |-> << >>, result |-> None ]

Commands ==
  { "get_stats", "get_activity_log", "get_balance_history", "save_config",
    "get_config", "start_bot", "stop_bot", "get_bot_status", "run_cycle",
    "run_demo_cycle" }

\* What a cycle in flight remembers of the engine it started from (history).
NoPre == [ log_count |-> 0, ledger |-> << >>, balance |-> 0, history |-> << >> ]
Pre(e) == [ log_count |-> e.log_count, ledger |-> e.orders,
            balance |-> e.stats.current_balance, history |-> e.balance_history ]
NoFut == [ new_activities |-> << >>, n |-> 0, idx |-> 0, pre |-> NoPre ]
\* A return value Ok(value); path (history) names the return statement taken.
NoRet == [ cmd |-> "none", ok |-> TRUE, value |-> << >>, path |-> "none" ]
Ok(c, v, path) == [ cmd |-> c, ok |-> TRUE, value |-> v, path |-> path ]

\* tokio::sync::Mutex::lock completes only when no guard is alive.
lock_ready_ignoring_holder(m) == TRUE
lock_ready(m) == m = None

InFlight(t) == pc[t] \in {"fetch", "predict"}

Base ==
  /\ mutex = None
  /\ pc = [t \in Tasks |-> "idle"]
  /\ cmd = [t \in Tasks |-> "none"]
  /\ cfg = [t \in Tasks |-> DefaultConfig]
  /\ fut = [t \in Tasks |-> NoFut]
  /\ ret = [t \in Tasks |-> NoRet]
  /\ ops = 0
  /\ fetched = 0

\* The engine at three points of its life: constructed by main(); once the
\* operator has saved an auto-trading configuration and started it; and after
\* its first cycle, run TickSecs later, which traded one market.
Ready == start(configure(New(0), 0, [DefaultConfig EXCEPT !.auto_trading = TRUE]), 0)
Traded == warm_cycle(Ready, TickSecs, 1)

Init ==
  /\ \/ engine \in {New(0), Ready} /\ now = 0
     \/ engine = Traded /\ now = TickSecs
  /\ Base
  /\ parse = NoParse

\* The same program after the warm-up prefix.
InitWarm == engine = Warm /\ now = 0 /\ Base /\ parse = NoParse

\* The operator interface invokes a command; the task awaits the lock.
Invoke(t, c, config) ==
  /\ pc[t] = "idle"
  /\ ops < MaxOps
  /\ pc' = [pc EXCEPT ![t] = "lock"]
  /\ cmd' = [cmd EXCEPT ![t] = c]
  /\ cfg' = [cfg EXCEPT ![t] = config]
  /\ ret' = [ret EXCEPT ![t] = NoRet]
  /\ ops' = ops + 1
  /\ UNCHANGED << engine, mutex, fut, now, fetched, parse >>

\* A command that does not await while it holds the guard: lock, body, drop.
Sync(t, c, e2, value) ==
  /\ pc[t] = "lock"
  /\ cmd[t] = c
  /\ lock_ready(mutex)
  /\ engine' = e2
  /\ ret' = [ret EXCEPT ![t] = Ok(c, value, "sync")]
  /\ pc' = [pc EXCEPT ![t] = "idle"]
  /\ UNCHANGED << mutex, cmd, cfg, fut, now, ops, fetched, parse >>

GetStats(t) == Sync(t, "get_stats", engine, engine.stats)
GetActivityLog(t) == Sync(t, "get_activity_log", engine, engine.activity_log)
GetBalanceHistory(t) == Sync(t, "get_balance_history", engine, engine.balance_history)
GetConfig(t) == Sync(t, "get_config", engine, engine.config)
GetBotStatus(t) == Sync(t, "get_bot_status", engine, engine.is_running)
SaveConfig(t) ==
  Sync(t, "save_config", configure(engine, now, cfg[t]), "Configuration saved successfully")
StartBot(t) == Sync(t, "start_bot", start(engine, now), "Bot started")
StopBot(t) == Sync(t, "stop_bot", stop(engine, now), "Bot stopped")
ReturnStats(t, e2) == Sync(t, "run_demo_cycle", e2, e2.stats)
RunDemoCycle(t) == ReturnStats(t, run_demo_cycle(engine, now))

\* run_cycle returns: the guard is dropped.
Return(t, ctx, path) ==
  /\ engine' = ctx.e
  /\ ret' = [ret EXCEPT ![t] = Ok("run_cycle", ctx.new_activities, path)]
  /\ pc' = [pc EXCEPT ![t] = "idle"]
  /\ fut' = [fut EXCEPT ![t] = NoFut]
  /\ mutex' = None

\* A design that releases the engine while the cycle awaits the network.
Suspend_dropping_guard(t, ctx, at, n, idx, pre) ==
  /\ engine' = ctx.e
  /\ fut' = [fut EXCEPT ![t] = [ new_activities |-> ctx.new_activities,
                                 n |-> n, idx |-> idx, pre |-> pre ]]
  /\ pc' = [pc EXCEPT ![t] = at]
  /\ mutex' = None
  /\ UNCHANGED ret

\* run_cycle suspends at an await: the guard taken in main.rs stays alive.
Suspend(t, ctx, at, n, idx, pre) ==
  /\ engine' = ctx.e
  /\ fut' = [fut EXCEPT ![t] = [ new_activities |-> ctx.new_activities,
                                 n |-> n, idx |-> idx, pre |-> pre ]]
  /\ pc' = [pc EXCEPT ![t] = at]
  /\ mutex' = Some(t)
  /\ UNCHANGED ret

\* A bug run_cycle could have: counting the cycle before the is_running test.
run_cycle_entry_counting_idle(e, t) ==
  LET ctx == cycle_begin(e, t)
  IN IF ~e.is_running
       THEN [ path |-> "idle", ctx |-> [ e |-> [e EXCEPT !.stats.cycle = @ + 1],
                                         new_activities |-> << >> ] ]
       ELSE [ path |-> IF IsSome(e.polymarket) THEN "fetch" ELSE "no_client",
              ctx |-> ctx ]

\* TradingEngine::run_cycle up to its first await or early return.
run_cycle_entry(e, t) ==
  IF ~e.is_running
    THEN [ path |-> "idle", ctx |-> [ e |-> e, new_activities |-> << >> ] ]
    ELSE [ path |-> IF IsSome(e.polymarket) THEN "fetch" ELSE "no_client",
           ctx |-> cycle_begin(e, t) ]

\* run_cycle (main.rs) takes the lock and calls TradingEngine::run_cycle.
RunCycleStart(t) ==
  /\ pc[t] = "lock"
  /\ cmd[t] = "run_cycle"
  /\ lock_ready(mutex)
  /\ LET r == run_cycle_entry(engine, now)
     IN IF r.path = "fetch"
          THEN Suspend(t, r.ctx, "fetch", 0, 0, Pre(engine))
          ELSE Return(t, r.ctx, r.path)
  /\ UNCHANGED << cmd, cfg, now, ops, fetched, parse >>

Ctx(t) == [ e |-> engine, new_activities |-> fut[t].new_activities ]

\* get_markets fails: the cycle ends early.
FetchErr(t) ==
  /\ pc[t] = "fetch"
  /\ Return(t, fetch_failed(Ctx(t), now), "fetch_failed")
  /\ UNCHANGED << cmd, cfg, now, ops, fetched, parse >>

\* get_markets returns n markets: the loop starts, or the cycle finishes when
\* there is nothing to analyse.
FetchOk(t, n) ==
  /\ pc[t] = "fetch"
  /\ LET ctx == fetch_ok(Ctx(t), now, n)
     IN IF Min(n, MarketPrefix) = 0 \/ ~IsSome(ctx.e.claude)
          THEN Return(t, cycle_finish(ctx, now), "completed")
          ELSE Suspend(t, ctx, "predict", n, 1, fut[t].pre)
  /\ fetched' = fetched + n
  /\ UNCHANGED << cmd, cfg, now, ops, parse >>

\* A bug the loop could have: a failed prediction ending the cycle.
PredictReturn_aborting_on_failure(t, resp) ==
  /\ pc[t] = "predict"
  /\ IF ~resp.ok
       THEN Return(t, prediction_failed(Ctx(t), now), "predict_failed")
       ELSE IF fut[t].idx >= Min(fut[t].n, MarketPrefix)
              THEN Return(t, cycle_finish(predict_step(Ctx(t), now, fut[t].idx, resp), now),
                          "completed")
              ELSE Suspend(t, predict_step(Ctx(t), now, fut[t].idx, resp), "predict",
                           fut[t].n, fut[t].idx + 1, fut[t].pre)
  /\ UNCHANGED << cmd, cfg, now, ops, fetched, parse >>

\* A bug the loop could have: analysing every market the fetch returned.
PredictReturn_over_all_markets(t, resp) ==
  /\ pc[t] = "predict"
  /\ LET ctx == predict_step(Ctx(t), now, fut[t].idx, resp)
     IN IF fut[t].idx >= fut[t].n
          THEN Return(t, cycle_finish(ctx, now), "completed")
          ELSE Suspend(t, ctx, "predict", fut[t].n, fut[t].idx + 1, fut[t].pre)
  /\ UNCHANGED << cmd, cfg, now, ops, fetched, parse >>

\* analyze_market returns for market idx: the loop body, then the next
\* market or the rest of the cycle.
PredictReturn(t, resp) ==
  /\ pc[t] = "predict"
  /\ LET ctx == predict_step(Ctx(t), now, fut[t].idx, resp)
     IN IF fut[t].idx >= Min(fut[t].n, MarketPrefix)
          THEN Return(t, cycle_finish(ctx, now), "completed")
          ELSE Suspend(t, ctx, "predict", fut[t].n, fut[t].idx + 1, fut[t].pre)
  /\ UNCHANGED << cmd, cfg, now, ops, fetched, parse >>

\* Time passes.
Tick ==
  /\ ops < MaxOps
  /\ now' = now + TickSecs
  /\ ops' = ops + 1
  /\ UNCHANGED << engine, mutex, pc, cmd, cfg, fut, ret, fetched, parse >>

\* The steps the tasks of T can take.
Step(T) ==
  \/ \E t \in T, c \in Commands \ {"save_config"} : Invoke(t, c, DefaultConfig)
  \/ \E t \in T, config \in ConfigSet : Invoke(t, "save_config", config)
  \/ \E t \in T : GetStats(t)
  \/ \E t \in T : GetActivityLog(t)
  \/ \E t \in T : GetBalanceHistory(t)
  \/ \E t \in T : GetConfig(t)
  \/ \E t \in T : GetBotStatus(t)
  \/ \E t \in T : SaveConfig(t)
  \/ \E t \in T : StartBot(t)
  \/ \E t \in T : StopBot(t)
  \/ \E t \in T : RunDemoCycle(t)
  \/ \E t \in T : RunCycleStart(t)
  \/ \E t \in T : FetchErr(t)
  \/ \E t \in T, n \in MarketCounts(fetched) : FetchOk(t, n)
  \/ \E t \in T, resp \in ResponseSet : PredictReturn(t, resp)

Next == Step(Tasks) \/ Tick

Spec == Init /\ [][Next]_vars

\* The warmed-up engine driven by one task at a time: the commands in sequence.
NextWarm == Step({1}) \/ Tick

SpecWarm == InitWarm /\ [][NextWarm]_vars

\* The long-running engine with one invocation left, which is a run_cycle on a
\* busy exchange: the predictor fails or finds an edge on each market.
InitLong ==
  /\ engine = Long /\ now = 0
  /\ mutex = None
  /\ pc = [t \in Tasks |-> "idle"]
  /\ cmd = [t \in Tasks |-> "none"]
  /\ cfg = [t \in Tasks |-> DefaultConfig]
  /\ fut = [t \in Tasks |-> NoFut]
  /\ ret = [t \in Tasks |-> NoRet]
  /\ ops = MaxOps - 1
  /\ fetched = 0
  /\ parse = NoParse

BurstResponses == { TransportFailure, Response(Some(<<1, 1>>), Good) }

NextLong ==
  \/ Invoke(1, "run_cycle", DefaultConfig)
  \/ RunCycleStart(1)
  \/ FetchErr(1)
  \/ \E n \in {0, BurstMarkets} : FetchOk(1, n)
  \/ \E resp \in BurstResponses : PredictReturn(1, resp)

SpecLong == InitLong /\ [][NextLong]_vars

\* parse_prediction on its own, for every text.
InitParse ==
  /\ engine = New(0) /\ now = 0 /\ Base
  /\ parse \in { [ text |-> text, result |-> None ] : text \in Texts }

\* analyze_market hands the text of the response to parse_prediction.
ParseText ==
  /\ parse.result = None
  /\ parse' = [parse EXCEPT !.result = Some(parse_prediction(parse.text))]
  /\ UNCHANGED << engine, mutex, pc, cmd, cfg, fut, ret, now, ops, fetched >>

NextParse == ParseText

SpecParse == InitParse /\ [][NextParse]_vars

\* ------------------------------------------------------------------ claims
EntriesSince(log, count) == SelectSeq(log, LAMBDA x : x.seq > count)
IsLast(log, entry_type) == Len(log) > 0 /\ log[Len(log)].entry_type = entry_type

\* C1: run_cycle on an idle engine returns Ok with an empty delta and leaves
\* the engine (stats with cycle and uptime, orders, balance_history,
\* activity_log) exactly as it was.
C1_IdleCycleChangesNothing ==
  [][\A t \in Tasks :
       (pc[t] = "lock" /\ cmd[t] = "run_cycle" /\ pc'[t] = "idle" /\ ~engine.is_running)
         => /\ engine' = engine
            /\ ret'[t].ok
            /\ ret'[t].value = << >>]_vars

\* An idle engine that was started and stopped has answered a run_cycle, and
\* no cycle was ever counted.
C1_Witness ==
  \E t \in Tasks :
    /\ ret[t].cmd = "run_cycle" /\ ret[t].path = "idle"
    /\ ~engine.is_running /\ engine.stats.cycle = 0 /\ engine.log_count >= 3

\* C2: after N add_activity calls the log holds exactly the last min(N, 500)
\* entries appended, in the order appended; its length never exceeds 500.
C2_LogIsLastEntries ==
  LET log == engine.activity_log
      N == engine.log_count
  IN /\ Len(log) = Min(N, LogCap)
     /\ \A i \in 1..Len(log) : log[i].seq = N - Len(log) + i

\* More than 500 entries were appended, the newest by a resolution.
C2_Witness ==
  /\ engine.log_count >= LogCap + 3
  /\ Len(engine.activity_log) = LogCap
  /\ IsLast(engine.activity_log, "Resolved")

C4_TradesAreWinsPlusLosses ==
  engine.stats.total_trades = engine.stats.wins + engine.stats.losses

\* Orders were resolved both ways, one of them breaking even.
C4_Witness ==
  /\ engine.stats.wins >= 1
  /\ engine.stats.losses >= 1
  /\ \E i \in 1..Len(engine.orders) : engine.orders[i].pnl = Some(0)

\* C5: a Resolved order has pnl and resolved_at set; a Pending or Filled order
\* has neither.
C5_ResolutionFieldsMatchStatus ==
  \A i \in 1..Len(engine.orders) :
    LET o == engine.orders[i]
    IN /\ o.status = "Resolved" => IsSome(o.pnl) /\ IsSome(o.resolved_at)
       /\ o.status \in {"Pending", "Filled"} => ~IsSome(o.pnl) /\ ~IsSome(o.resolved_at)

\* The ledger holds a Resolved order and a Filled one at once.
C5_Witness ==
  /\ \E i \in 1..Len(engine.orders) : engine.orders[i].status = "Resolved"
  /\ \E i \in 1..Len(engine.orders) : engine.orders[i].status = "Filled"

\* C6: when get_markets fails, run_cycle returns Ok; current_balance, the
\* ledger and balance_history are as before the cycle, exactly one Error
\* entry was appended, and the engine is still running.
C6_FetchFailureEndsCycleEarly ==
  [][\A t \in Tasks :
       (pc[t] = "fetch" /\ pc'[t] = "idle" /\ ret'[t].path = "fetch_failed")
         => /\ ret'[t].ok
            /\ engine'.stats.current_balance = fut[t].pre.balance
            /\ engine'.orders = fut[t].pre.ledger
            /\ engine'.balance_history = fut[t].pre.history
            /\ engine'.is_running
            /\ Len(SelectSeq(EntriesSince(engine'.activity_log, fut[t].pre.log_count),
                             LAMBDA x : x.entry_type = "Error")) = 1]_vars

\* A cycle has just ended on a fetch failure, after an earlier cycle traded.
C6_Witness ==
  \E t \in Tasks :
    /\ ret[t].path = "fetch_failed" /\ pc[t] = "idle"
    /\ IsLast(engine.activity_log, "Error")
    /\ engine.is_running
    /\ Len(engine.orders) > 0

\* C7: the list run_cycle returns is exactly the sequence of entries appended
\* to the activity log during the call.
C7_DeltaIsEverythingLogged ==
  [][\A t \in Tasks :
       (cmd[t] = "run_cycle" /\ pc[t] # "idle" /\ pc'[t] = "idle")
         => ret'[t].value =
              EntriesSince(engine'.activity_log,
                           IF pc[t] = "lock" THEN engine.log_count
                                             ELSE fut[t].pre.log_count)]_vars

\* C8: while a run_cycle is in flight it holds the lock, and no other task
\* takes a step other than being invoked and queueing for the lock: no second
\* cycle starts and no command reads or writes the engine.
C8_CycleExcludesOtherCommands ==
  [][\A t \in Tasks :
       InFlight(t) =>
         /\ mutex = Some(t)
         /\ \A u \in Tasks \ {t} :
              /\ ~InFlight(u)
              /\ pc'[u] = pc[u] \/ (pc[u] = "idle" /\ pc'[u] = "lock")
              /\ ret'[u] = ret[u] \/ pc[u] = "idle"]_vars

\* A cycle awaits a prediction while a get_stats queues for the lock.
C8_Witness ==
  \E t, u \in Tasks :
    /\ pc[t] = "predict"
    /\ pc[u] = "lock" /\ cmd[u] = "get_stats"

\* C9: a stop_bot issued while a cycle is in flight waits; the engine stays
\* running for the rest of that cycle, which completes with resolution,
\* balance point and statistics; the stop acts only afterwards, when no cycle
\* is in flight, and leaves the engine idle; a run_cycle that then finds the
\* engine idle returns without work.
C9_StopWaitsForCycle ==
  [][\A t \in Tasks :
       /\ (pc[t] = "lock" /\ cmd[t] = "stop_bot" /\ pc'[t] = "idle") =>
            /\ ~engine'.is_running
            /\ \A u \in Tasks : ~InFlight(u)
       /\ (pc[t] = "lock" /\ cmd[t] = "run_cycle" /\ pc'[t] # "lock" /\ ~engine.is_running) =>
            /\ pc'[t] = "idle"
            /\ engine'.stats = engine.stats /\ engine'.orders = engine.orders
       /\ InFlight(t) =>
            /\ engine.is_running
            /\ \A u \in Tasks :
                 (pc[u] = "lock" /\ cmd[u] = "stop_bot") => pc'[u] = "lock"
            /\ (pc'[t] = "idle" /\ ret'[t].path = "completed") =>
                 /\ engine'.is_running
                 /\ Len(engine'.balance_history) = Len(fut[t].pre.history) + 1
                 /\ engine'.stats.cycle = engine.stats.cycle
                 /\ \A i \in 1..Len(engine'.orders) : engine'.orders[i].status = "Resolved"]_vars

\* A cycle that placed an order is in flight and a stop_bot is queued.
C9_Witness ==
  \E t, u \in Tasks :
    /\ pc[t] = "predict" /\ fut[t].idx = 2
    /\ IsLast(engine.activity_log, "Order")
    /\ pc[u] = "lock" /\ cmd[u] = "stop_bot"

\* C10: start() on a running engine leaves start_time unchanged.
C10_StartOnRunningKeepsStartTime ==
  [][\A t \in Tasks :
       (pc[t] = "lock" /\ cmd[t] = "start_bot" /\ pc'[t] = "idle" /\ engine.is_running)
         => engine'.start_time = engine.start_time]_vars

\* C11: get_stats on an engine that is not running reports the uptime
\* 00:00:00.
C11_IdleUptimeIsZero ==
  [][\A t \in Tasks :
       (pc[t] = "lock" /\ cmd[t] = "get_stats" /\ pc'[t] = "idle" /\ ~engine.is_running)
         => ret'[t].value.uptime = <<0, 0, 0>>]_vars

\* C12: the loop body appends an order exactly for a successful prediction
\* with edge >= min_edge_threshold, order size above 1.0 and auto_trading
\* set; a qualifying edge is logged as an Edge entry either way; and while
\* auto_trading is off no step of run_cycle changes the ledger or the
\* balance or logs an Order entry.
C12_OrdersOnlyWhenAutoTrading ==
  [][\A t \in Tasks :
       /\ pc[t] = "predict" =>
            \A resp \in ResponseSet :
              LET after == predict_step(Ctx(t), now, fut[t].idx, resp).e
                  size == Min((resp.prediction.recommended_size
                                 * engine.stats.current_balance) \div 100,
                              engine.config.max_bet_size)
                  qualifies == resp.ok /\ resp.prediction.edge >= engine.config.min_edge_threshold
              IN /\ after.order_count > engine.order_count
                      <=> (qualifies /\ size > 1000 /\ engine.config.auto_trading)
                 /\ Len(after.orders) - Len(engine.orders) = after.order_count - engine.order_count
                 /\ qualifies =>
                      Len(SelectSeq(EntriesSince(after.activity_log, engine.log_count),
                                    LAMBDA x : x.entry_type = "Edge")) = 1
       /\ (cmd[t] = "run_cycle" /\ pc[t] # "idle" /\ pc'[t] # pc[t] /\ ~engine.config.auto_trading) =>
            /\ engine'.orders = engine.orders
            /\ engine'.stats.current_balance = engine.stats.current_balance
            /\ EntriesSince(engine'.activity_log, engine.log_count)
                 = SelectSeq(EntriesSince(engine'.activity_log, engine.log_count),
                             LAMBDA x : x.entry_type # "Order")]_vars

\* A cycle of an engine with auto_trading off has logged an edge and analyses
\* its next market with an empty ledger.
C12_Witness ==
  \E t \in Tasks :
    /\ pc[t] = "predict" /\ fut[t].idx = 2
    /\ ~engine.config.auto_trading
    /\ IsLast(engine.activity_log, "Edge")
    /\ engine.orders = << >>

\* C13: a predictor failure for one market appends exactly one Inference
\* entry and creates no order; the cycle goes on to the next market of the
\* prefix, or after the last one completes with resolution, balance point and
\* statistics.
C13_PredictorFailureSkipsMarket ==
  [][\A t \in Tasks :
       /\ pc[t] = "predict" =>
            LET after == predict_step(Ctx(t), now, fut[t].idx, TransportFailure)
            IN /\ after.e.log_count = engine.log_count + 1
               /\ IsLast(after.e.activity_log, "Inference")
               /\ after.e.orders = engine.orders
               /\ after.e.stats = engine.stats
               /\ after.new_activities
                    = Append(fut[t].new_activities,
                             after.e.activity_log[Len(after.e.activity_log)])
       /\ (pc[t] = "predict"
           /\ Len(SelectSeq(EntriesSince(engine'.activity_log, engine.log_count),
                            LAMBDA x : x.entry_type = "Inference")) = 1) =>
            /\ engine'.order_count = engine.order_count
            /\ IF fut[t].idx < Min(fut[t].n, MarketPrefix)
                 THEN /\ pc'[t] = "predict"
                      /\ fut'[t].idx = fut[t].idx + 1
                      /\ engine'.log_count = engine.log_count + 1
                 ELSE /\ pc'[t] = "idle"
                      /\ ret'[t].ok /\ ret'[t].path = "completed"
                      /\ Len(engine'.balance_history) = Len(engine.balance_history) + 1
                      /\ engine'.stats.total_pnl
                           = engine'.stats.current_balance - engine'.stats.initial_balance
                      /\ \A i \in 1..Len(engine'.orders) :
                           engine'.orders[i].status = "Resolved"]_vars

\* A cycle completed with an order placed and resolved after an earlier
\* market's prediction had failed.
C13_Witness ==
  \E t \in Tasks :
    /\ pc[t] = "idle" /\ ret[t].path = "completed"
    /\ \E i \in 1..Len(ret[t].value) : ret[t].value[i].entry_type = "Inference"
    /\ IsLast(ret[t].value, "Order")

\* The orders of e2 that are Resolved and were not Resolved orders of e.
NewlyResolved(e, e2) ==
  SelectSeq(e2.orders,
            LAMBDA o : /\ o.status = "Resolved"
                       /\ ~\E i \in 1..Len(e.orders) :
                             e.orders[i].id = o.id /\ e.orders[i].status = "Resolved")

HasOrder(e, id) == \E i \in 1..Len(e.orders) : e.orders[i].id = id

\* C14: in every step, a Resolved order that stays in the ledger is left as
\* it is, an order leaves the ledger only when it was already Resolved, every
\* order created stays in the ledger, and (demo cycles apart) total_trades
\* grows by exactly the number of orders that become Resolved; a completed
\* cycle leaves no order unresolved.
C14_ResolvedOnceBeforeEviction ==
  [][/\ \A i \in 1..Len(engine.orders) :
          LET o == engine.orders[i]
          IN /\ o.status # "Resolved" => HasOrder(engine', o.id)
             /\ o.status = "Resolved" =>
                  \A j \in 1..Len(engine'.orders) :
                    engine'.orders[j].id = o.id => engine'.orders[j] = o
     /\ \A id \in (engine.order_count + 1)..engine'.order_count : HasOrder(engine', id)
     /\ engine'.demo_cycles = engine.demo_cycles =>
          Len(NewlyResolved(engine, engine')) = engine'.stats.total_trades - engine.stats.total_trades
     /\ \A t \in Tasks :
          (InFlight(t) /\ pc'[t] = "idle" /\ ret'[t].path = "completed") =>
            \A j \in 1..Len(engine'.orders) : engine'.orders[j].status = "Resolved"]_vars

\* More orders were created than the ledger holds, every one was resolved
\* once, and the newest was resolved by the cycle that has just completed.
C14_Witness ==
  /\ engine.order_count > LedgerCap
  /\ engine.demo_cycles = 0
  /\ engine.stats.total_trades = engine.order_count
  /\ \E t \in Tasks : pc[t] = "idle" /\ ret[t].path = "completed"
  /\ engine.orders[LedgerCap].status = "Resolved"

\* C15: demo cycles apart, every step changes current_balance by exactly the
\* sum of the pnl of the orders it resolves, so only the resolution step of a
\* completing cycle changes it; the loop body leaves it alone for every
\* response of the predictor.
C15_BalanceMovesOnlyByResolution ==
  [][/\ engine'.demo_cycles = engine.demo_cycles =>
          /\ engine'.stats.current_balance - engine.stats.current_balance
               = SumPnl(NewlyResolved(engine, engine'), 1)
          /\ engine'.stats.current_balance # engine.stats.current_balance =>
               \E t \in Tasks : InFlight(t) /\ pc'[t] = "idle" /\ ret'[t].path = "completed"
     /\ \A t \in Tasks :
          pc[t] = "predict" =>
            \A resp \in ResponseSet :
              predict_step(Ctx(t), now, fut[t].idx, resp).e.stats.current_balance
                = engine.stats.current_balance]_vars

\* A cycle has completed whose resolution lost money, after an earlier one
\* had won.
C15_Witness ==
  /\ \E t \in Tasks : pc[t] = "idle" /\ ret[t].path = "completed"
  /\ engine.demo_cycles = 0
  /\ Len(engine.orders) >= 2
  /\ \E i \in 1..Len(engine.orders) : engine.orders[i].pnl # None /\ Unwrap(engine.orders[i].pnl) > 0
  /\ IsSome(engine.orders[Len(engine.orders)].pnl)
  /\ Unwrap(engine.orders[Len(engine.orders)].pnl) < 0

\* C16: current_balance = initial_balance + the pnl of all orders resolved so
\* far (those evicted included) as long as no demo cycle has run, and
\* total_pnl = current_balance - initial_balance.
C16_BalanceIsInitialPlusPnl ==
  /\ engine.demo_cycles = 0 =>
       engine.stats.current_balance = engine.stats.initial_balance + engine.resolved_pnl
  /\ engine.stats.total_pnl = engine.stats.current_balance - engine.stats.initial_balance

\* A cycle has completed after orders were evicted: the balance counts the
\* pnl of the evicted orders, which the ledger no longer sums to.
C16_Witness ==
  /\ \E t \in Tasks : pc[t] = "idle" /\ ret[t].path = "completed"
  /\ engine.demo_cycles = 0
  /\ engine.order_count > LedgerCap
  /\ engine.resolved_pnl # SumPnl(engine.orders, 1)
  /\ engine.stats.total_pnl = engine.resolved_pnl

\* C17: in the states reached without demo cycles, zero trades mean
\* win_rate = 0 and sharpe_ratio = 0, and with trades win_rate is
\* wins / total_trades x 100 (in hundredths of a percent). Every division of
\* the statistics update is evaluated on the way to these states.
C17_WinRateAndSharpe ==
  engine.demo_cycles = 0 =>
    /\ engine.stats.total_trades = 0 =>
         engine.stats.win_rate = 0 /\ engine.stats.sharpe_ratio = 0
    /\ engine.stats.total_trades > 0 =>
         engine.stats.win_rate = (engine.stats.wins * 10000) \div engine.stats.total_trades

\* A cycle that analysed a market and traded nothing has completed and
\* updated the statistics of an engine with zero trades.
C17_Witness ==
  /\ \E t \in Tasks : pc[t] = "idle" /\ ret[t].path = "completed"
  /\ engine.demo_cycles = 0
  /\ engine.stats.total_trades = 0
  /\ engine.stats.markets_scanned >= 1
  /\ engine.stats.runway_days = 9999

\* C18: every failure path of a running cycle appends exactly one entry to
\* the activity log: a failed fetch, a failed prediction, and a cycle that
\* finds no market-data client configured.
C18_OneEntryPerFailure ==
  [][\A t \in Tasks :
       /\ (pc[t] = "fetch" /\ pc'[t] = "idle" /\ ret'[t].path = "fetch_failed") =>
            /\ engine'.log_count = engine.log_count + 1
            /\ IsLast(engine'.activity_log, "Error")
       /\ pc[t] = "predict" =>
            predict_step(Ctx(t), now, fut[t].idx, TransportFailure).e.log_count
              = engine.log_count + 1
       /\ (pc[t] = "lock" /\ cmd[t] = "run_cycle" /\ pc'[t] = "idle"
           /\ ret'[t].path = "no_client") =>
            engine'.log_count = engine.log_count + 1]_vars

\* C19: parse_prediction returns a prediction for every text, and the
\* fallback (edge 0, confidence 0.3, fair_price 0.5, outcome "Yes",
\* recommended_size 0) when the text holds no JSON object.
C19_ParseAlwaysReturns ==
  IsSome(parse.result) =>
    /\ Unwrap(parse.result).returned
    /\ Unwrap(parse.result).ok
    /\ (find(parse.text, "{") = None \/ rfind(parse.text, "}") = None) =>
         Unwrap(parse.result).prediction = Fallback

\* C20: an order the loop body appends has size = min(recommended_size x
\* current_balance, max_bet_size), with the balance and the configuration of
\* the moment it is created, so 1.0 < size <= max_bet_size.
C20_OrderSizeIsCappedStake ==
  [][\A t \in Tasks :
       (pc[t] = "predict" /\ engine'.order_count > engine.order_count) =>
         /\ engine'.order_count = engine.order_count + 1
         /\ LET o == engine'.orders[Len(engine'.orders)]
            IN /\ o.id = engine'.order_count
               /\ o.size > 1000
               /\ o.size <= engine.config.max_bet_size
               /\ \E resp \in ResponseSet :
                    /\ resp.ok
                    /\ o.price = resp.prediction.fair_price
                    /\ o.size = Min((resp.prediction.recommended_size
                                       * engine.stats.current_balance) \div 100,
                                    engine.config.max_bet_size)]_vars

\* An order was created at the cap of a configuration whose max_bet_size is
\* below the recommended stake.
C20_Witness ==
  /\ Len(engine.orders) > 0
  /\ engine.orders[Len(engine.orders)].size = engine.config.max_bet_size
  /\ (20 * engine.stats.current_balance) \div 100 > engine.config.max_bet_size

\* C21: a completed cycle leaves daily_api_cost = api_costs and runway_days
\* = floor(current_balance / daily_api_cost) for that daily_api_cost when it
\* is positive, and the sentinel 9999 otherwise.
C21_RunwayMatchesDailyCost ==
  [][\A t \in Tasks :
       (InFlight(t) /\ pc'[t] = "idle" /\ ret'[t].path = "completed") =>
         LET s == engine'.stats
         IN /\ s.daily_api_cost = s.api_costs
            /\ s.runway_days = IF s.daily_api_cost > 0
                                 THEN as_u32(s.current_balance \div s.daily_api_cost)
                                 ELSE 9999]_vars

C23_BalanceHistoryIsBounded == Len(engine.balance_history) <= LogCap

\* C24: total_trades, wins, losses, cycle and markets_scanned never
\* decrease; cycle grows by one on every run_cycle invoked while the engine
\* runs, a cycle the fetch then aborts included, and by nothing otherwise;
\* markets_scanned grows by the number of markets a successful fetch returns
\* and by nothing on a failed one. (Demo cycles, which the specification
\* leaves out, only add to the counters.)
C24_CountersOnlyGrow ==
  [][LET s == engine.stats
         s2 == engine'.stats
         entering == { t \in Tasks : pc[t] = "lock" /\ pc'[t] # "lock" /\ cmd[t] = "run_cycle" }
     IN /\ s2.total_trades >= s.total_trades
        /\ s2.wins >= s.wins
        /\ s2.losses >= s.losses
        /\ s2.cycle >= s.cycle
        /\ s2.markets_scanned >= s.markets_scanned
        /\ engine'.demo_cycles = engine.demo_cycles =>
             /\ s2.cycle = s.cycle + (IF entering # {} /\ engine.is_running THEN 1 ELSE 0)
             /\ s2.markets_scanned = s.markets_scanned + (fetched' - fetched)]_vars

\* A cycle that scanned two markets, then a cycle the fetch aborted: both
\* counted, the scan count unchanged by the second.
C24_Witness ==
  /\ engine.demo_cycles = 0
  /\ engine.stats.cycle = 2
  /\ engine.completed_cycles = 1
  /\ engine.stats.markets_scanned = 2
  /\ fetched = 2
  /\ \E t \in Tasks : pc[t] = "idle" /\ ret[t].path = "fetch_failed"

\* C25: stats.api_costs is cumulative: no operation lowers it, a configure
\* between two cycles that each make successful predictions included.
C25_ApiCostsNeverDecrease ==
  [][engine'.demo_cycles = 0 => engine'.stats.api_costs >= engine.stats.api_costs]_vars

\* C26: a run_cycle call makes at most one fetch and at most MarketPrefix
\* predictor calls: the fetch comes first and is never repeated; the
\* predictions are for markets 1, 2, ... of the response, one call each, up to
\* the smaller of MarketPrefix and the number returned; then the cycle ends
\* with resolution, the balance point and the statistics, in that order.
C26_OneFetchThenBoundedPredictions ==
  [][\A t \in Tasks :
       /\ pc'[t] = "fetch" => pc[t] \in {"lock", "fetch"}
       /\ (pc'[t] = "predict" /\ pc[t] # "predict") =>
            pc[t] = "fetch" /\ fut'[t].idx = 1 /\ fut'[t].n = fetched' - fetched
       /\ pc'[t] = "predict" =>
            fut'[t].idx >= 1 /\ fut'[t].idx <= Min(fut'[t].n, MarketPrefix)
       /\ (pc[t] = "predict" /\ pc'[t] = "predict" /\ engine' # engine) =>
            fut'[t].idx = fut[t].idx + 1 /\ fut'[t].n = fut[t].n
       /\ (pc[t] = "predict" /\ pc'[t] = "idle") =>
            /\ fut[t].idx = Min(fut[t].n, MarketPrefix)
            /\ ret'[t].path = "completed"
            /\ \A i \in 1..Len(engine'.orders) : engine'.orders[i].status = "Resolved"
            /\ engine'.balance_history[Len(engine'.balance_history)].balance
                 = engine'.stats.current_balance
            /\ engine'.stats.total_pnl
                 = engine'.stats.current_balance - engine'.stats.initial_balance]_vars

\* A cycle whose fetch returned more than MarketPrefix markets has completed
\* after MarketPrefix successful predictions of a thousand tokens each.
C26_Witness ==
  /\ pc[1] = "idle" /\ ret[1].path = "completed"
  /\ fetched > MarketPrefix
  /\ Unwrap(engine.claude).total_input_tokens = MarketPrefix
  /\ Len(ret[1].value) = 2 + MarketPrefix

\* C27: stop, on an engine in any state, sets is_running to false and
\* appends exactly one entry, a Warning, to the log; start_time, stats, orders
\* and balance_history stay as they were.
C27_StopOnlyStopsAndLogs ==
  [][\A t \in Tasks :
       (pc[t] = "lock" /\ cmd[t] = "stop_bot" /\ pc'[t] = "idle") =>
         LET added == EntriesSince(engine'.activity_log, engine.log_count)
         IN /\ ~engine'.is_running
            /\ engine'.log_count = engine.log_count + 1
            /\ Len(added) = 1 /\ added[1].entry_type = "Warning"
            /\ IsLast(engine'.activity_log, "Warning")
            /\ engine'.start_time = engine.start_time
            /\ engine'.stats = engine.stats
            /\ engine'.orders = engine.orders
            /\ engine'.balance_history = engine.balance_history]_vars

\* An engine that has traded was stopped, and stopped again while idle: two
\* Warning entries, and it still knows when it was started.
C27_Witness ==
  /\ \A t \in Tasks : pc[t] = "idle" /\ ret[t].cmd = "stop_bot"
  /\ ~engine.is_running
  /\ IsSome(engine.start_time)
  /\ Len(engine.orders) > 0
  /\ Len(EntriesSince(engine.activity_log, engine.log_count - 2)) = 2
  /\ \A i \in 1..Len(engine.activity_log) :
       engine.activity_log[i].seq > engine.log_count - 2
         => engine.activity_log[i].entry_type = "Warning"

\* C28: configure changes only config and the two clients and appends
\* exactly one entry, an Info, to the log; stats (initial_balance and
\* current_balance too, even when the new configuration names another initial
\* balance), orders, balance_history, is_running and start_time stay as they
\* were.
C28_ConfigureOnlyConfiguresAndLogs ==
  [][\A t \in Tasks :
       (pc[t] = "lock" /\ cmd[t] = "save_config" /\ pc'[t] = "idle") =>
         LET added == EntriesSince(engine'.activity_log, engine.log_count)
         IN /\ engine'.config = cfg[t]
            /\ IsSome(engine'.polymarket) /\ IsSome(engine'.claude)
            /\ engine'.log_count = engine.log_count + 1
            /\ Len(added) = 1 /\ added[1].entry_type = "Info"
            /\ engine'.stats = engine.stats
            /\ engine'.orders = engine.orders
            /\ engine'.balance_history = engine.balance_history
            /\ engine'.is_running = engine.is_running
            /\ engine'.start_time = engine.start_time]_vars

\* A running engine that has traded was given a configuration with another
\* initial balance: its accounts still start from the old one.
C28_Witness ==
  /\ \E t \in Tasks : pc[t] = "idle" /\ ret[t].cmd = "save_config"
  /\ engine.config.initial_balance # engine.stats.initial_balance
  /\ engine.stats.current_balance # engine.config.initial_balance
  /\ engine.is_running
  /\ Len(engine.orders) > 0
  /\ IsLast(engine.activity_log, "Info")

C30_WinsAndLossesMatchLogLines ==
  [][\A t \in Tasks :
       (InFlight(t) /\ pc'[t] = "idle" /\ ret'[t].path = "completed") =>
         LET added == EntriesSince(engine'.activity_log, engine.log_count)
             typed(ty) == Len(SelectSeq(added, LAMBDA x : x.entry_type = ty))
         IN /\ engine'.stats.wins - engine.stats.wins = typed("Resolved")
            /\ engine'.stats.losses - engine.stats.losses = typed("Warning")]_vars

====
